---- MODULE Spec2Model ----
(***************************************************************************)
(* Model of the intraday trading controller of                            *)
(* src/quantum_trader_split_deploy.py (trade_logic and its helpers) with  *)
(* the gateway functions of src/mock_trader.py as its environment.        *)
(*                                                                         *)
(* Money is kept in units of 1/Scale dollar so that the transaction cost  *)
(* of 0.05% is exact in integers; prices are whole dollars.  Percentages  *)
(* (threshold, stop_loss_percent) are numerators over Pct.  Time is       *)
(* counted in tick intervals.                                             *)
(***************************************************************************)
EXTENDS Integers, Sequences, FiniteSets, TLC

\* ------------------------------------------------------------------ bounds
neighborhood_size == 3
MaxTime == 8
MaxFaults == 2

\* --------------------------------------------------------- configuration
tickers == <<"RGTI", "QBTS">>
Tickers == {tickers[i] : i \in 1..Len(tickers)}
Scale == 10000
Pct == 100
transaction_cost == 5
StartCapital == 4000
threshold == 2
stop_loss_percent == 1
ClearBuffer == 1

Prices == {100, 103}
\* fetch_market_price returns None (NoQuote) when it has no price, and
\* otherwise the lastPrice of the response as it is, 0 included.
NoQuote == -1
ZeroPrice == 0

\* ------------------------------------------------------- trading calendar
\* One trading day lasts DayLen time units.  The market-hours response of
\* a day lists preMarket, regularMarket and postMarket in that order.
DayLen == 7
PreOpen == 0
RegOpen == 1
RegClose == 5
PostClose == 6

DayStart(t) == (t \div DayLen) * DayLen

VARIABLES
    pc,                        \* position of trade_logic in its loop
    idx,                       \* index of the ticker being processed
    now,                       \* wall clock
    capital,                   \* global capital (available capital)
    total_capital_used,
    positions,                 \* ticker -> shares, borrowed_shares, entry_price, position
    prices_buffers,            \* ticker -> price window
    market_hours,              \* last market-hours response
    session_type,
    clear_time,
    encrypted_account_number,
    acct,                      \* broker side: holdings per ticker
    faults,                    \* failures of the external services so far
    orders,                    \* orders submitted in the current tick
    entry_evals,               \* should_enter_trade calls of the current tick
    tick_hours,                \* market-hours responses fetched in the current tick
    committed,                 \* ticker -> amount its open added to total_capital_used
    expected,                  \* start capital + realized profits - costs charged
    clean,                     \* every order so far was confirmed and filled
    exception,                 \* the exception that ended the loop, if any
    quote,                     \* what fetch_market_price returned at line 376
    fetched_account,           \* the account id of the last successful fetch
    signal,                    \* the decision function the last step called, and its result
    request,                   \* the request make_api_request was called with
    attempt,                   \* make_api_request's loop variable
    response                   \* what make_api_request returned

vars == <<pc, idx, now, capital, total_capital_used, positions, prices_buffers,
          market_hours, session_type, clear_time, encrypted_account_number,
          acct, faults, orders, entry_evals, tick_hours, committed, expected,
          clean, exception, quote, fetched_account, signal, request, attempt,
          response>>

\* ------------------------------------------------------------ pure helpers
Max2(a, b) == IF a >= b THEN a ELSE b
Min2(a, b) == IF a <= b THEN a ELSE b

RECURSIVE SeqMin(_)
SeqMin(s) == IF Len(s) = 1 THEN s[1] ELSE Min2(s[1], SeqMin(Tail(s)))

RECURSIVE SeqMax(_)
SeqMax(s) == IF Len(s) = 1 THEN s[1] ELSE Max2(s[1], SeqMax(Tail(s)))

\* prices[-neighborhood_size:]
LastN(s, n) == IF Len(s) <= n THEN s ELSE SubSeq(s, Len(s) - n + 1, Len(s))

FlatPosition == [shares |-> 0, borrowed_shares |-> 0, entry_price |-> 0, position |-> "None"]

Abs(x) == IF x < 0 THEN -x ELSE x

\* ----------------------------------------------------------- SignalDetector
\* the same with the drop tested before the rise
should_enter_trade_DropFirst(prices, thr) ==
    LET neighborhood == LastN(prices, neighborhood_size)
        local_min == SeqMin(neighborhood)
        local_max == SeqMax(neighborhood)
        current_price == prices[Len(prices)]
        rise_gt == IF local_min > 0
                   THEN (current_price - local_min) * Pct > thr * local_min
                   ELSE 0 > thr
        drop_gt == IF local_max > 0
                   THEN (local_max - current_price) * Pct > thr * local_max
                   ELSE 0 > thr
    IN IF drop_gt THEN "short" ELSE IF rise_gt THEN "long" ELSE "None"

should_enter_trade(prices, thr) ==
    LET neighborhood == LastN(prices, neighborhood_size)
        local_min == SeqMin(neighborhood)
        local_max == SeqMax(neighborhood)
        current_price == prices[Len(prices)]
        \* rise_from_min > threshold and drop_from_max > threshold, cross-multiplied
        rise_gt == IF local_min > 0
                   THEN (current_price - local_min) * Pct > thr * local_min
                   ELSE 0 > thr
        drop_gt == IF local_max > 0
                   THEN (local_max - current_price) * Pct > thr * local_max
                   ELSE 0 > thr
    IN IF rise_gt THEN "long" ELSE IF drop_gt THEN "short" ELSE "None"

\* the same with the long stop taken from the entry price alone
should_exit_trade_EntryOnly(position, prices, entry_price, slp) ==
    LET peak_price == IF position = "long" THEN SeqMax(prices) ELSE SeqMin(prices)
        current_price == prices[Len(prices)]
    IN IF position = "long"
       THEN current_price * Pct <= entry_price * (Pct - slp)
       ELSE IF position = "short"
       THEN current_price * Pct >= Min2(entry_price * (Pct + slp), peak_price * (Pct + slp))
       ELSE FALSE

should_exit_trade(position, prices, entry_price, slp) ==
    LET peak_price == IF position = "long" THEN SeqMax(prices) ELSE SeqMin(prices)
        current_price == prices[Len(prices)]
    IN IF position = "long"
       THEN current_price * Pct <= Max2(entry_price * (Pct - slp), peak_price * (Pct - slp))
       ELSE IF position = "short"
       THEN current_price * Pct >= Min2(entry_price * (Pct + slp), peak_price * (Pct + slp))
       ELSE FALSE

\* the trailing rule with the short stop never reached
should_exit_trade_trailing_LongOnly(position, prices, entry_price, slp) ==
    LET peak_price == IF position = "long" THEN SeqMax(prices) ELSE SeqMin(prices)
        current_price == prices[Len(prices)]
    IN IF position = "long"
       THEN current_price * Pct <= peak_price * (Pct - slp)
       ELSE FALSE

\* should_exit_trade of quantum_trader_deploy.py: the trailing stop alone
should_exit_trade_trailing(position, prices, entry_price, slp) ==
    LET peak_price == IF position = "long" THEN SeqMax(prices) ELSE SeqMin(prices)
        current_price == prices[Len(prices)]
    IN IF position = "long"
       THEN current_price * Pct <= peak_price * (Pct - slp)
       ELSE IF position = "short"
       THEN current_price * Pct >= peak_price * (Pct + slp)
       ELSE FALSE

\* what `signal` holds: no call, a call of should_enter_trade, a call of
\* should_exit_trade
NoSignal == [fn |-> "None", param |-> 0, result |-> "None"]
Entered(thr, decision) == [fn |-> "should_enter_trade", param |-> thr, result |-> decision]
Exited(fn, slp, exit) ==
    [fn |-> fn, param |-> slp, result |-> IF exit THEN "True" ELSE "False"]

\* what `request` and `response` hold when make_api_request is not running
NoRequest == [method |-> "None", endpoint |-> "None", started |-> 0]
NoResponse == [kind |-> "pending", of |-> 0]

\* ------------------------------------------------------------- SessionClock
NoneTime == -1
UnboundTime == -2

\* The responses check_market_hours can return at time t: None (fetch
\* failed), a response without regular-market hours, or the day's hours.
HoursResponses(t) ==
    { [kind |-> "None", day |-> 0],
      [kind |-> "noRegular", day |-> DayStart(t)],
      [kind |-> "full", day |-> DayStart(t)] }

SessionHours(mh) ==
    IF mh.kind = "full"
    THEN << [type |-> "preMarket", start |-> mh.day + PreOpen, end |-> mh.day + RegOpen],
            [type |-> "regularMarket", start |-> mh.day + RegOpen, end |-> mh.day + RegClose],
            [type |-> "postMarket", start |-> mh.day + RegClose, end |-> mh.day + PostClose] >>
    ELSE << >>

RECURSIVE FirstContaining(_, _)
FirstContaining(periods, t) ==
    IF periods = << >> THEN "None"
    ELSE IF periods[1].start <= t /\ t <= periods[1].end THEN periods[1].type
    ELSE FirstContaining(Tail(periods), t)

\* the same with the end of a period excluded
RECURSIVE FirstContainingEndExcluded(_, _)
FirstContainingEndExcluded(periods, t) ==
    IF periods = << >> THEN "None"
    ELSE IF periods[1].start <= t /\ t < periods[1].end THEN periods[1].type
    ELSE FirstContainingEndExcluded(Tail(periods), t)

get_session_type_EndExcluded(mh, t) == FirstContainingEndExcluded(SessionHours(mh), t)
get_session_type(mh, t) == FirstContaining(SessionHours(mh), t)

get_clear_time(mh) ==
    IF mh.kind = "full" THEN mh.day + RegClose - ClearBuffer ELSE NoneTime

\* The top-level keys of a market-hours response: check_market_hours returns
\* the response body, which is keyed by market (equity.EQ.sessionHours).
ResponseKeys(mh) == IF mh.kind = "None" THEN {} ELSE {"equity"}

\* get_clear_time of quantum_trader_deploy.py: the time of day under the
\* top-level key "marketClose" minus 5 minutes, None without that key
get_clear_time_deploy(mh) ==
    IF "marketClose" \in ResponseKeys(mh) THEN RegClose - ClearBuffer ELSE NoneTime

\* `clear_time and current_time >= clear_time`
ShouldLiquidate(ct, t) == ct # NoneTime /\ t >= ct

\* The exchange calendar: the days (counted from day 0) without a session.
\* nyse.schedule has a row for every other day.
ClosedDays == {2}
IsTradingDay(day) == (day \div DayLen) \notin ClosedDays

\* sleep_until_next_market_open: the instant at which it returns
RECURSIVE NextOpenFrom(_, _, _)
NextOpenFrom(t, day, k) ==
    IF k = 0 THEN t
    ELSE IF ~IsTradingDay(day) THEN NextOpenFrom(t, day + DayLen, k - 1)
    ELSE IF t < day + RegOpen THEN day + RegOpen
    ELSE IF t < day + RegClose THEN t
    ELSE NextOpenFrom(t, day + DayLen, k - 1)

ScheduleDays == 6
\* the same with a schedule of the current day only
sleep_until_next_market_open_Today(t) == NextOpenFrom(t, DayStart(t), 1)
sleep_until_next_market_open(t) == NextOpenFrom(t, DayStart(t), ScheduleDays)

\* ----------------------------------------------------------- PositionLedger
\* the same sizing without the per-symbol halving
EntryQuantity_Whole(cap, price) == cap \div (Scale * price)

EntryQuantity(cap, price) == cap \div (2 * Scale * price)
LongCost(q, p) == q * p * (Scale + transaction_cost)
ShortValue(q, p) == q * p * Scale
LongProceeds(q, p) == q * p * (Scale - transaction_cost)
CoverCost(q, p) == q * p * (Scale + transaction_cost)

\* capital change of a confirmed stop-loss exit (trade_logic)
ExitEffect(position, q, entry_price, p) ==
    IF position = "long" THEN LongProceeds(q, p)
    ELSE entry_price * q * Scale - CoverCost(q, p)

\* capital change clear_all_positions applies when it closes a position
ClearEffect(position, q, entry_price, p) ==
    IF position = "long" THEN LongProceeds(q, p)
    ELSE 0 - CoverCost(q, p)

\* price profit less the transaction cost of closing q shares at p
RealizedNet(position, q, entry_price, p) ==
    (IF position = "long" THEN q * (p - entry_price) ELSE q * (entry_price - p)) * Scale
      - q * p * transaction_cost

\* Line 396: `positions[ticker]["position"] is None`
CanEnterAlways(p) == TRUE
CanEnter(p) == p.position = "None"

\* -------------------------------------------------------------- PriceBuffer
PushKeepOldest(buf, price) ==
    IF Len(buf) >= neighborhood_size THEN buf ELSE Append(buf, price)
Push(buf, price) ==
    LET b == Append(buf, price)
    IN IF Len(b) > neighborhood_size THEN Tail(b) ELSE b

\* -------------------------------------------------------------- OrderGateway
\* place_order_with_validation: "filled" and "accepted" are HTTP 201 (True);
\* an accepted order may never fill at the broker; "rejected" is False.
OrderResults == {"filled", "accepted", "rejected"}
OrderOkAlways(res) == TRUE
OrderOk(res) == res # "rejected"

ApplyFill(a, order_type, q) ==
    IF order_type = "BUY" THEN [a EXCEPT !.long = a.long + q]
    ELSE IF order_type = "SELL" THEN [a EXCEPT !.long = Max2(0, a.long - q)]
    ELSE IF order_type = "SELL_SHORT" THEN [a EXCEPT !.short = a.short + q]
    ELSE [a EXCEPT !.short = Max2(0, a.short - q)]

BrokerAfter(a, order_type, q, res) ==
    IF res = "filled" THEN ApplyFill(a, order_type, q) ELSE a

\* parse_quantities: only the symbols the broker holds are in the result
Quantities(ac) == { t \in Tickers : ac[t].long > 0 \/ ac[t].short > 0 }

\* The positions list can also carry a symbol whose longQuantity and
\* shortQuantity are both 0 (parse_quantities reads both with a default of
\* 0.0): the sets of such symbols a response can list.
ZeroListings(ac) == SUBSET (Tickers \ Quantities(ac))

SyncPosition(p, q) ==
    [p EXCEPT !.shares = q.long,
              !.borrowed_shares = q.short,
              !.position = IF q.long > 0 THEN "long"
                           ELSE IF q.short > 0 THEN "short" ELSE "None"]

\* ---------------------------------------------------------------- the loop
WithinFaultBound(f) == f <= MaxFaults

Init ==
    /\ pc = "refresh"
    /\ idx = 1
    \* trade_logic starts with sleep_until_next_market_open()
    /\ now \in RegOpen..(RegClose - 1)
    /\ capital = StartCapital * Scale
    /\ total_capital_used = 0
    /\ positions = [t \in Tickers |-> FlatPosition]
    /\ prices_buffers = [t \in Tickers |-> << >>]
    /\ market_hours = [kind |-> "None", day |-> 0]
    /\ session_type = "None"
    /\ clear_time = UnboundTime
    /\ encrypted_account_number = 0
    /\ acct = [t \in Tickers |-> [long |-> 0, short |-> 0]]
    /\ faults = 0
    /\ orders = << >>
    /\ entry_evals = {}
    /\ tick_hours = {}
    /\ committed = [t \in Tickers |-> 0]
    /\ expected = StartCapital * Scale
    /\ clean = TRUE
    /\ exception = "None"
    /\ quote = NoQuote
    /\ fetched_account = 0
    /\ signal = NoSignal
    /\ request = NoRequest
    /\ attempt = 0
    /\ response = NoResponse

\* ---------------------------------------------------------- CredentialCache
\* What the accountNumbers request can do: 200 with an account list, 200 with
\* an empty list, another status, or an exception.
MaxAccountId == 3
AccountIds == 1..MaxAccountId
FetchOutcomes ==
    {[kind |-> "ok", id |-> a] : a \in AccountIds}
      \cup {[kind |-> k, id |-> 0] : k \in {"empty", "non200", "exception"}}

\* get_encrypted_account_number: the fetched id on success, the previous id
\* on a failure when there is one; 0 stands for "raises ValueError" (0 is
\* also the initial, falsy, previous id of trade_logic).
FreshAccountOnly(outcome, previous) ==
    IF outcome.kind = "ok" THEN outcome.id ELSE 0
get_encrypted_account_number(outcome, previous) ==
    IF outcome.kind = "ok" THEN outcome.id
    ELSE IF previous # 0 THEN previous
    ELSE 0

\* the same with one account id and one kind of failure
AccountNumber(fetched, previous) ==
    get_encrypted_account_number(
        IF fetched THEN [kind |-> "ok", id |-> 1] ELSE [kind |-> "non200", id |-> 0],
        previous)

\* Lines 336-355: credentials, account positions, sync of the local ledger
Refresh ==
    /\ pc = "refresh"
    /\ \E fetched \in BOOLEAN :
        /\ AccountNumber(fetched, encrypted_account_number) # 0
        /\ encrypted_account_number' = AccountNumber(fetched, encrypted_account_number)
        /\ fetched_account' = IF fetched THEN 1 ELSE fetched_account
    /\ \E listed \in ZeroListings(acct) :
        positions' = [t \in Tickers |->
                         IF t \in Quantities(acct) \cup listed
                         THEN SyncPosition(positions[t], acct[t])
                         ELSE positions[t]]
    /\ clean' = (clean /\ positions' = positions)
    /\ orders' = << >>
    /\ entry_evals' = {}
    /\ tick_hours' = {}
    /\ idx' = 1
    /\ quote' = NoQuote
    /\ pc' = "hours"
    /\ signal' = NoSignal
    /\ UNCHANGED <<request, attempt, response>>
    /\ UNCHANGED <<now, capital, total_capital_used, prices_buffers, market_hours,
                   session_type, clear_time, acct, faults, committed,
                   expected, exception>>

\* The secret store, the account-number fetch without a fallback, or the
\* account-positions request raises: the exception leaves trade_logic.
RefreshFails ==
    /\ pc = "refresh"
    /\ \E e \in {"ClientError", "ValueError", "HTTPError"} :
        /\ (e = "ValueError") => encrypted_account_number = 0
        /\ exception' = e
    /\ faults' = faults + 1
    /\ WithinFaultBound(faults')
    /\ pc' = "crashed"
    /\ signal' = NoSignal
    /\ UNCHANGED <<request, attempt, response>>
    /\ UNCHANGED <<tick_hours, idx, now, capital, total_capital_used, positions, prices_buffers,
                   market_hours, session_type, clear_time, encrypted_account_number,
                   acct, orders, entry_evals, committed,
                   expected, clean, quote, fetched_account>>

\* Lines 358-370: market hours, session type, clear time, liquidation test
CheckHours ==
    /\ pc = "hours"
    /\ \E mh \in HoursResponses(now) :
        /\ market_hours' = mh
        /\ tick_hours' = tick_hours \cup {mh}
        /\ faults' = IF mh.kind = "full" THEN faults ELSE faults + 1
        /\ WithinFaultBound(faults')
        /\ IF mh.kind # "None"
           THEN /\ session_type' = get_session_type(mh, now)
                /\ clear_time' = get_clear_time(mh)
           ELSE /\ session_type' = "None"
                /\ clear_time' = clear_time
    /\ clear_time' # UnboundTime
    /\ pc' = IF ShouldLiquidate(clear_time', now) THEN "clear" ELSE "price"
    /\ signal' = NoSignal
    /\ UNCHANGED <<request, attempt, response>>
    /\ UNCHANGED <<idx, now, capital, total_capital_used, positions, prices_buffers,
                   encrypted_account_number, acct, orders,
                   entry_evals, committed, expected, clean, exception, quote,
                   fetched_account>>

\* Line 370 reads clear_time before any assignment when the first
\* market-hours fetch of the process fails.
CheckHoursUnbound ==
    /\ pc = "hours"
    /\ clear_time = UnboundTime
    /\ market_hours' = [kind |-> "None", day |-> 0]
    /\ session_type' = "None"
    /\ exception' = "UnboundLocalError"
    /\ pc' = "crashed"
    /\ signal' = NoSignal
    /\ UNCHANGED <<request, attempt, response>>
    /\ UNCHANGED <<tick_hours, idx, now, capital, total_capital_used, positions, prices_buffers,
                   clear_time, encrypted_account_number, acct, faults,
                   orders, entry_evals, committed, expected, clean, quote,
                   fetched_account>>

\* the next symbol without the liquidation check of lines 358-370
AdvanceSkipsCheck ==
    IF idx < Len(tickers)
    THEN pc' = "price" /\ idx' = idx + 1
    ELSE pc' = "sleep" /\ idx' = idx

Advance ==
    IF idx < Len(tickers)
    THEN pc' = "hours" /\ idx' = idx + 1
    ELSE pc' = "sleep" /\ idx' = idx

\* What fetch_market_price can return
QuoteResults == Prices \cup {ZeroPrice, NoQuote}

\* Line 377: `price is None`
UnavailableNever(q) == FALSE
Unavailable(q) == q = NoQuote

\* Lines 376-379: no quote, `continue`
PriceUnavailable ==
    /\ pc = "price"
    /\ \E price \in QuoteResults :
        /\ Unavailable(price)
        /\ quote' = price
    /\ faults' = faults + 1
    /\ WithinFaultBound(faults')
    /\ Advance
    /\ signal' = NoSignal
    /\ UNCHANGED <<request, attempt, response>>
    /\ UNCHANGED <<tick_hours, now, capital, total_capital_used, positions, prices_buffers,
                   market_hours, session_type, clear_time, encrypted_account_number,
                   acct, orders, entry_evals, committed,
                   expected, clean, exception, fetched_account>>

\* Line 507: time.sleep(30)
Sleep ==
    /\ pc = "sleep"
    /\ now < MaxTime
    /\ now' = now + 1
    /\ pc' = "refresh"
    /\ signal' = NoSignal
    /\ UNCHANGED <<request, attempt, response>>
    /\ UNCHANGED <<tick_hours, idx, capital, total_capital_used, positions, prices_buffers,
                   market_hours, session_type, clear_time, encrypted_account_number,
                   acct, faults, orders, entry_evals, committed,
                   expected, clean, exception, quote, fetched_account>>

\* -------------------------------------------------------- order bookkeeping
Order(sym, order_type, q, res, kind, p, winlen, projected, delta, price) ==
    [sym |-> sym, order_type |-> order_type, quantity |-> q, ok |-> (res # "rejected"),
     kind |-> kind, position |-> p.position, entry_price |-> p.entry_price,
     winlen |-> winlen, session |-> session_type, tcu |-> total_capital_used,
     cap |-> capital, projected |-> projected, delta |-> delta, price |-> price]


\* Lines 396-455: entry into a position
OpenPosition(p, decision, q, price) ==
    IF decision = "long"
    THEN [p EXCEPT !.shares = p.shares + q, !.entry_price = price, !.position = "long"]
    ELSE [p EXCEPT !.borrowed_shares = p.borrowed_shares + q, !.entry_price = price,
                   !.position = "short"]

\* Lines 468-473 and 493-500: the ledger entry of a closed position
ClosePosition(p) ==
    IF p.position = "long"
    THEN [p EXCEPT !.shares = 0, !.entry_price = 0, !.position = "None"]
    ELSE [p EXCEPT !.borrowed_shares = 0, !.entry_price = 0, !.position = "None"]

\* Lines 470 and 497: what a stop-loss exit subtracts from total_capital_used
ExitRelease(p) ==
    IF p.position = "long" THEN p.shares * p.entry_price * Scale
    ELSE p.borrowed_shares * p.entry_price * Scale

\* Lines 426-428 and 451: what an entry adds to total_capital_used
EntryCommit(decision, q, price) ==
    IF decision = "long" THEN LongCost(q, price) ELSE ShortValue(q, price)

\* Lines 427 and 450: what an entry takes from capital
EntryDebit(decision, q, price) ==
    IF decision = "long" THEN LongCost(q, price) ELSE 0

\* the transaction cost an entry charges
EntryFee(decision, q, price) ==
    IF decision = "long" THEN q * price * transaction_cost ELSE 0

\* Lines 391-396: orders only in the regular session; no other precondition
MayDecideAlways(sess, prices) == TRUE
MayDecide(sess, prices) == sess = "regularMarket"

\* Lines 376-504: quote, buffer push, entry or exit decision, order
ProcessTicker ==
    /\ pc = "price"
    /\ \E price \in QuoteResults, res \in OrderResults :
        LET t == tickers[idx]
            p == positions[t]
            prices == Push(prices_buffers[t], price)
            trading == MayDecide(session_type, prices)
            enter == trading /\ CanEnter(p)
            decision == IF enter THEN should_enter_trade(prices, threshold) ELSE "None"
            quantity == EntryQuantity(capital, price)
            potential_cost == IF decision = "long" THEN LongCost(quantity, price)
                              ELSE IF decision = "short" THEN ShortValue(quantity, price)
                              ELSE 0
            entering == enter /\ decision # "None" /\ quantity > 0
            exiting == /\ trading
                       /\ ~enter
                       /\ p.position \in {"long", "short"}
                       /\ should_exit_trade(p.position, prices, p.entry_price,
                                            stop_loss_percent)
            exitq == IF p.position = "long" THEN p.shares ELSE Abs(p.borrowed_shares)
            submitted == entering \/ exiting
            ok == submitted /\ OrderOk(res)
            order_type == IF entering
                          THEN (IF decision = "long" THEN "BUY" ELSE "SELL_SHORT")
                          ELSE (IF p.position = "long" THEN "SELL" ELSE "BUY_TO_COVER")
            q == IF entering THEN quantity ELSE exitq
            delta == IF ~ok THEN 0
                     ELSE IF entering THEN 0 - EntryDebit(decision, quantity, price)
                     ELSE ExitEffect(p.position, exitq, p.entry_price, price)
        IN
        /\ ~Unavailable(price)
        \* line 398 divides by the price: see QuantityZeroDivision
        /\ ~(price = ZeroPrice /\ enter)
        /\ (~submitted) => res = "filled"
        /\ faults' = faults + (IF submitted /\ res # "filled" THEN 1 ELSE 0)
                             + (IF price \notin Prices THEN 1 ELSE 0)
        /\ WithinFaultBound(faults')
        /\ quote' = price
        /\ prices_buffers' = [prices_buffers EXCEPT ![t] = prices]
        /\ positions' = [positions EXCEPT ![t] =
                            IF ~ok THEN p
                            ELSE IF entering THEN OpenPosition(p, decision, quantity, price)
                            ELSE ClosePosition(p)]
        /\ capital' = capital + delta
        /\ total_capital_used' =
               IF ~ok THEN total_capital_used
               ELSE IF entering
               THEN total_capital_used + EntryCommit(decision, quantity, price)
               ELSE total_capital_used - ExitRelease(p)
        /\ acct' = IF submitted
                   THEN [acct EXCEPT ![t] = BrokerAfter(acct[t], order_type, q, res)]
                   ELSE acct
        /\ orders' = IF submitted
                     THEN Append(orders,
                                 Order(t, order_type, q, res,
                                       IF entering THEN "entry" ELSE "exit",
                                       p, Len(prices), potential_cost, delta, price))
                     ELSE orders
        /\ entry_evals' = IF enter
                          THEN entry_evals \cup
                                 {[sym |-> t, position |-> p.position, winlen |-> Len(prices)]}
                          ELSE entry_evals
        /\ committed' = IF ~ok THEN committed
                        ELSE IF entering
                        THEN [committed EXCEPT ![t] = EntryCommit(decision, quantity, price)]
                        ELSE [committed EXCEPT ![t] = 0]
        /\ expected' = IF ~ok THEN expected
                       ELSE IF entering
                       THEN expected - EntryFee(decision, quantity, price)
                       ELSE expected + RealizedNet(p.position, exitq, p.entry_price, price)
        /\ clean' = (clean /\ (submitted => res = "filled"))
        /\ signal' = IF enter THEN Entered(threshold, decision)
                      ELSE IF trading /\ p.position \in {"long", "short"}
                      THEN Exited("should_exit_trade", stop_loss_percent, exiting)
                      ELSE NoSignal
    /\ Advance
    /\ UNCHANGED <<request, attempt, response>>
    /\ UNCHANGED <<tick_hours, now, market_hours, session_type, clear_time,
                   encrypted_account_number, exception, fetched_account>>

\* Lines 376-398 with a quote of 0 for a Flat symbol in the regular session:
\* the price is pushed, should_enter_trade is called, and
\* `max_capital_per_stock // price` raises ZeroDivisionError.
QuantityZeroDivision ==
    /\ pc = "price"
    /\ LET t == tickers[idx]
           p == positions[t]
           prices == Push(prices_buffers[t], ZeroPrice)
       IN /\ MayDecide(session_type, prices)
          /\ CanEnter(p)
          /\ prices_buffers' = [prices_buffers EXCEPT ![t] = prices]
          /\ entry_evals' = entry_evals \cup
                 {[sym |-> t, position |-> p.position, winlen |-> Len(prices)]}
          /\ signal' = Entered(threshold, should_enter_trade(prices, threshold))
    /\ quote' = ZeroPrice
    /\ faults' = faults + 1
    /\ WithinFaultBound(faults')
    /\ exception' = "ZeroDivisionError"
    /\ pc' = "crashed"
    /\ UNCHANGED <<request, attempt, response>>
    /\ UNCHANGED <<tick_hours, idx, now, capital, total_capital_used, positions,
                   market_hours, session_type, clear_time, encrypted_account_number,
                   acct, orders, committed, expected, clean, fetched_account>>

\* ------------------------------------------------------ clear_all_positions
ClearOutcomes == [quote : Prices \cup {NoQuote}, res : OrderResults]

ClearedBuffersKept(bufs) == bufs
ClearedBuffers(bufs) == [t \in DOMAIN bufs |-> << >>]

\* Lines 191-194: the ledger entry after a confirmed closing order
ClearedSharesOnly(p) == [p EXCEPT !.shares = 0, !.borrowed_shares = 0]
Cleared(p) ==
    [p EXCEPT !.shares = 0, !.borrowed_shares = 0, !.entry_price = 0, !.position = "None"]

\* Lines 169-194, one ticker after the other; st carries capital and the
\* ledger through the loop, out gives each ticker's quote and order result.
RECURSIVE ClearFrom(_, _, _)
ClearFrom(i, st, out) ==
    IF i > Len(tickers) THEN st
    ELSE
    LET t == tickers[i]
        p == st.positions[t]
        position == p.position
        quantity == IF position = "long" THEN p.shares ELSE Abs(p.borrowed_shares)
        current_price == out[t].quote
        res == out[t].res
        order_type == IF position = "long" THEN "SELL" ELSE "BUY_TO_COVER"
        delta == ClearEffect(position, quantity, p.entry_price, current_price)
        rec == [Order(t, order_type, quantity, res, "clear", p,
                      Len(prices_buffers[t]), 0, delta, current_price)
                  EXCEPT !.cap = st.capital]
    IN
    IF position # "None" /\ quantity > 0
    THEN IF current_price = NoQuote
         THEN ClearFrom(i + 1, [st EXCEPT !.skipped = st.skipped \cup {t},
                                          !.faults = st.faults + 1], out)
         ELSE ClearFrom(i + 1,
                [st EXCEPT
                   !.capital = st.capital + delta,
                   !.positions = IF OrderOk(res)
                                 THEN [st.positions EXCEPT ![t] = Cleared(p)]
                                 ELSE st.positions,
                   !.acct = [st.acct EXCEPT ![t] =
                                BrokerAfter(st.acct[t], order_type, quantity, res)],
                   !.faults = IF res # "filled" THEN st.faults + 1 ELSE st.faults,
                   !.orders = Append(st.orders, rec),
                   !.committed = IF OrderOk(res)
                                 THEN [st.committed EXCEPT ![t] = 0]
                                 ELSE st.committed,
                   !.expected = IF OrderOk(res)
                                THEN st.expected + RealizedNet(position, quantity,
                                                               p.entry_price, current_price)
                                ELSE st.expected,
                   !.clean = (st.clean /\ res = "filled")],
                out)
    ELSE IF out[t] = [quote |-> NoQuote, res |-> "filled"]
         THEN ClearFrom(i + 1, st, out)
         ELSE [st EXCEPT !.faults = MaxFaults + 1]

\* Lines 370-374: flatten, reset of total_capital_used, sleep until the open
ClearAll ==
    /\ pc = "clear"
    /\ \E out \in [Tickers -> ClearOutcomes] :
        LET st == ClearFrom(1, [capital |-> capital, positions |-> positions,
                                acct |-> acct, faults |-> faults, orders |-> orders,
                                committed |-> committed, expected |-> expected,
                                clean |-> clean, skipped |-> {}], out)
        IN
        /\ WithinFaultBound(st.faults)
        /\ capital' = st.capital
        /\ positions' = st.positions
        /\ acct' = st.acct
        /\ faults' = st.faults
        /\ orders' = st.orders
        /\ committed' = st.committed
        /\ expected' = st.expected
        /\ clean' = (st.clean /\ st.skipped = {})
    /\ prices_buffers' = ClearedBuffers(prices_buffers)
    /\ total_capital_used' = 0
    /\ sleep_until_next_market_open(now) <= MaxTime
    /\ now' = sleep_until_next_market_open(now)
    /\ quote' = NoQuote
    /\ pc' = "price"
    /\ signal' = NoSignal
    /\ UNCHANGED <<request, attempt, response>>
    /\ UNCHANGED <<tick_hours, idx, market_hours, session_type, clear_time,
                   encrypted_account_number, entry_evals, exception, fetched_account>>

Next ==
    \/ Refresh
    \/ RefreshFails
    \/ CheckHours
    \/ CheckHoursUnbound
    \/ ClearAll
    \/ PriceUnavailable
    \/ ProcessTicker
    \/ QuantityZeroDivision
    \/ Sleep

Spec == Init /\ [][Next]_vars

\* ------------------------------------------ the credential refresh by itself
\* Lines 336-338 and 507 of the loop, with every outcome of the
\* accountNumbers request and several account ids.
CredRefresh ==
    /\ pc = "refresh"
    /\ \E outcome \in FetchOutcomes :
        LET r == get_encrypted_account_number(outcome, encrypted_account_number)
        IN /\ r # 0
           /\ encrypted_account_number' = r
           /\ fetched_account' = IF outcome.kind = "ok" THEN outcome.id
                                  ELSE fetched_account
           /\ faults' = IF outcome.kind = "ok" THEN faults ELSE faults + 1
    /\ pc' = "sleep"
    /\ signal' = NoSignal
    /\ UNCHANGED <<request, attempt, response>>
    /\ UNCHANGED <<idx, now, capital, total_capital_used, positions, prices_buffers,
                   market_hours, session_type, clear_time, acct, orders, entry_evals,
                   tick_hours, committed, expected, clean, exception, quote>>

CredRefreshRaises ==
    /\ pc = "refresh"
    /\ \E outcome \in FetchOutcomes :
        get_encrypted_account_number(outcome, encrypted_account_number) = 0
    /\ faults' = faults + 1
    /\ exception' = "ValueError"
    /\ pc' = "crashed"
    /\ signal' = NoSignal
    /\ UNCHANGED <<request, attempt, response>>
    /\ UNCHANGED <<idx, now, capital, total_capital_used, positions, prices_buffers,
                   market_hours, session_type, clear_time, encrypted_account_number, acct, orders,
                   entry_evals, tick_hours, committed, expected, clean, quote,
                   fetched_account>>

CredNext ==
    \/ CredRefresh
    \/ CredRefreshRaises
    \/ Sleep

CredSpec == Init /\ [][CredNext]_vars

\* ----------------------- clear_all_positions of quantum_trader_deploy.py
\* The function assigns `capital` (`capital += proceeds`, `capital -= cost`)
\* without declaring it global, so the name is local to the function and is
\* read before any assignment: at the first open symbol that has a quote,
\* or else in the closing log line that formats `capital`.
\* `quantity = int(capital // price)` of the entries
DeployQuantity(cap, price) == cap \div (Scale * price)

\* the ledger entries the entries of lines 294-296 and 316-318 write
LedgerEntries ==
    {FlatPosition}
      \cup {[shares |-> DeployQuantity(StartCapital * Scale, e), borrowed_shares |-> 0,
              entry_price |-> e, position |-> "long"] : e \in Prices}
      \cup {[shares |-> 0, borrowed_shares |-> DeployQuantity(StartCapital * Scale, e),
              entry_price |-> e, position |-> "short"] : e \in Prices}

Windows == {<< >>} \cup {<<a>> : a \in Prices} \cup {<<a, b>> : a, b \in Prices}

\* `position and quantity > 0` of the flatten loop
OpenToClear(p) ==
    /\ p.position # "None"
    /\ (IF p.position = "long" THEN p.shares ELSE Abs(p.borrowed_shares)) > 0

\* the symbols the loop reaches with a quote, in ticker order
Quoted(out) == { i \in 1..Len(tickers) :
                    OpenToClear(positions[tickers[i]]) /\ out[tickers[i]] # NoQuote }

DeployInit ==
    /\ pc = "clear"
    /\ idx = 1
    /\ now = RegClose - ClearBuffer
    /\ capital = StartCapital * Scale
    /\ total_capital_used = 0
    /\ positions \in [Tickers -> LedgerEntries]
    /\ prices_buffers \in [Tickers -> Windows]
    /\ market_hours = [kind |-> "full", day |-> 0]
    /\ session_type = "regularMarket"
    /\ clear_time = RegClose - ClearBuffer
    /\ encrypted_account_number = 1
    /\ acct = [t \in Tickers |-> [long |-> positions[t].shares,
                                  short |-> positions[t].borrowed_shares]]
    /\ faults = 0
    /\ orders = << >>
    /\ entry_evals = {}
    /\ tick_hours = {}
    /\ committed = [t \in Tickers |-> 0]
    /\ expected = StartCapital * Scale
    /\ clean = TRUE
    /\ exception = "None"
    /\ quote = NoQuote
    /\ fetched_account = 1
    /\ signal = NoSignal
    /\ request = NoRequest
    /\ attempt = 0
    /\ response = NoResponse

\* Lines 139-155: the loop reaches an open symbol whose quote is available
\* and raises at `capital += proceeds` or `capital -= cost`, before the
\* order is placed.
DeployClearRaisesAtCapital ==
    /\ pc = "clear"
    /\ \E out \in [Tickers -> Prices \cup {NoQuote}] :
        /\ Quoted(out) # {}
        /\ LET first == CHOOSE i \in Quoted(out) : \A j \in Quoted(out) : i <= j
               skipped == { i \in 1..(first - 1) : OpenToClear(positions[tickers[i]]) }
           IN /\ quote' = out[tickers[first]]
              /\ faults' = faults + Cardinality(skipped)
              /\ clean' = (clean /\ skipped = {})
    /\ exception' = "UnboundLocalError"
    /\ pc' = "crashed"
    /\ signal' = NoSignal
    /\ UNCHANGED <<request, attempt, response>>
    /\ UNCHANGED <<idx, now, capital, total_capital_used, positions, prices_buffers,
                   market_hours, session_type, clear_time, encrypted_account_number,
                   acct, orders, entry_evals, tick_hours, committed, expected,
                   fetched_account>>

\* Lines 139-172: no open symbol has a quote; the buffers are emptied and the
\* last line raises when it formats `capital`.
DeployClearRaisesAtLog ==
    /\ pc = "clear"
    /\ \E out \in [Tickers -> Prices \cup {NoQuote}] :
        /\ Quoted(out) = {}
        /\ LET skipped == { t \in Tickers : OpenToClear(positions[t]) }
           IN /\ faults' = faults + Cardinality(skipped)
              /\ clean' = (clean /\ skipped = {})
    /\ prices_buffers' = [t \in Tickers |-> << >>]
    /\ quote' = NoQuote
    /\ exception' = "UnboundLocalError"
    /\ pc' = "crashed"
    /\ signal' = NoSignal
    /\ UNCHANGED <<request, attempt, response>>
    /\ UNCHANGED <<idx, now, capital, total_capital_used, positions,
                   market_hours, session_type, clear_time, encrypted_account_number,
                   acct, orders, entry_evals, tick_hours, committed, expected,
                   fetched_account>>

DeployNext ==
    \/ DeployClearRaisesAtCapital
    \/ DeployClearRaisesAtLog

DeploySpec == DeployInit /\ [][DeployNext]_vars

\* ------------------------------------------ the decision functions by themselves
\* should_enter_trade and both should_exit_trade variants called on a
\* window, a ledger entry and a parameter drawn from small sets. 5 and 6 are
\* the stops of Scenario B and of quantum_trader_deploy.py, 1 is the
\* threshold of quantum_trader_deploy.py (all in percent).
SignalPrices == {ZeroPrice, 90, 100, 104, 110}
Thresholds == {threshold, 1}
StopLossPercents == {stop_loss_percent, 5, 6}
SignalWindows == UNION {[1..n -> SignalPrices] : n \in 1..(neighborhood_size + 1)}
SignalLedger ==
    {FlatPosition}
      \cup {[shares |-> 1, borrowed_shares |-> 0, entry_price |-> e, position |-> "long"] :
                e \in SignalPrices}
      \cup {[shares |-> 0, borrowed_shares |-> 1, entry_price |-> e, position |-> "short"] :
                e \in SignalPrices}

SignalInit ==
    /\ pc = "price"
    /\ idx = 1
    /\ now = RegOpen
    /\ capital = StartCapital * Scale
    /\ total_capital_used = 0
    /\ \E entry \in SignalLedger :
          positions = [t \in Tickers |-> IF t = tickers[1] THEN entry ELSE FlatPosition]
    /\ \E w \in SignalWindows :
          prices_buffers = [t \in Tickers |-> IF t = tickers[1] THEN w ELSE << >>]
    /\ market_hours = [kind |-> "full", day |-> 0]
    /\ session_type = "regularMarket"
    /\ clear_time = RegClose - ClearBuffer
    /\ encrypted_account_number = 1
    /\ acct = [t \in Tickers |-> [long |-> positions[t].shares,
                                  short |-> positions[t].borrowed_shares]]
    /\ faults = 0
    /\ orders = << >>
    /\ entry_evals = {}
    /\ tick_hours = {}
    /\ committed = [t \in Tickers |-> 0]
    /\ expected = StartCapital * Scale
    /\ clean = TRUE
    /\ exception = "None"
    /\ quote = NoQuote
    /\ fetched_account = 1
    /\ signal = NoSignal
    /\ request = NoRequest
    /\ attempt = 0
    /\ response = NoResponse

\* the same call, had the slice `prices[-neighborhood_size:]` been taken by
\* deleting from the caller's list
EvalEnter_Consuming ==
    /\ pc = "price"
    /\ positions[tickers[idx]].position = "None"
    /\ \E thr \in Thresholds :
          signal' = Entered(thr, should_enter_trade(prices_buffers[tickers[idx]], thr))
    /\ prices_buffers' = [prices_buffers EXCEPT ![tickers[idx]] =
                             IF Len(@) > 1 THEN Tail(@) ELSE @]
    /\ pc' = "sleep"
    /\ UNCHANGED <<request, attempt, response>>
    /\ UNCHANGED <<idx, now, capital, total_capital_used, positions,
                   market_hours, session_type, clear_time, encrypted_account_number,
                   acct, faults, orders, entry_evals, tick_hours, committed, expected,
                   clean, exception, quote, fetched_account>>

\* `decision = should_enter_trade(prices, threshold)` for a Flat symbol
EvalEnter ==
    /\ pc = "price"
    /\ positions[tickers[idx]].position = "None"
    /\ \E thr \in Thresholds :
          signal' = Entered(thr, should_enter_trade(prices_buffers[tickers[idx]], thr))
    /\ pc' = "sleep"
    /\ UNCHANGED <<request, attempt, response>>
    /\ UNCHANGED <<idx, now, capital, total_capital_used, positions, prices_buffers,
                   market_hours, session_type, clear_time, encrypted_account_number,
                   acct, faults, orders, entry_evals, tick_hours, committed, expected,
                   clean, exception, quote, fetched_account>>

\* should_exit_trade of quantum_trader_split_deploy.py on the ledger entry
EvalExit ==
    /\ pc = "price"
    /\ \E slp \in StopLossPercents :
          LET p == positions[tickers[idx]]
          IN signal' = Exited("should_exit_trade", slp,
                              should_exit_trade(p.position, prices_buffers[tickers[idx]],
                                                p.entry_price, slp))
    /\ pc' = "sleep"
    /\ UNCHANGED <<request, attempt, response>>
    /\ UNCHANGED <<idx, now, capital, total_capital_used, positions, prices_buffers,
                   market_hours, session_type, clear_time, encrypted_account_number,
                   acct, faults, orders, entry_evals, tick_hours, committed, expected,
                   clean, exception, quote, fetched_account>>

\* should_exit_trade of quantum_trader_deploy.py on the ledger entry
EvalExitTrailing ==
    /\ pc = "price"
    /\ \E slp \in StopLossPercents :
          LET p == positions[tickers[idx]]
          IN signal' = Exited("should_exit_trade_trailing", slp,
                              should_exit_trade_trailing(p.position,
                                                         prices_buffers[tickers[idx]],
                                                         p.entry_price, slp))
    /\ pc' = "sleep"
    /\ UNCHANGED <<request, attempt, response>>
    /\ UNCHANGED <<idx, now, capital, total_capital_used, positions, prices_buffers,
                   market_hours, session_type, clear_time, encrypted_account_number,
                   acct, faults, orders, entry_evals, tick_hours, committed, expected,
                   clean, exception, quote, fetched_account>>

SignalNext ==
    \/ EvalEnter
    \/ EvalExit
    \/ EvalExitTrailing

SignalSpec == SignalInit /\ [][SignalNext]_vars

\* ------------------------------------------ should_enter_trade called twice
\* a second `should_enter_trade(prices, threshold)` on the window the first
\* call was given (lines 71-97 read prices, threshold and the module
\* constant neighborhood_size, and write only to the log)
EvalEnterAgain ==
    /\ pc = "sleep"
    /\ signal.fn = "should_enter_trade"
    /\ \E thr \in Thresholds :
          signal' = Entered(thr, should_enter_trade(prices_buffers[tickers[idx]], thr))
    /\ pc' = "returned"
    /\ UNCHANGED <<request, attempt, response>>
    /\ UNCHANGED <<idx, now, capital, total_capital_used, positions, prices_buffers,
                   market_hours, session_type, clear_time, encrypted_account_number,
                   acct, faults, orders, entry_evals, tick_hours, committed, expected,
                   clean, exception, quote, fetched_account>>

RepeatNext ==
    \/ EvalEnter
    \/ EvalEnterAgain

RepeatSpec == SignalInit /\ [][RepeatNext]_vars

\* ------------------------------------------- the clock functions by themselves
\* get_session_type, both get_clear_time variants and
\* sleep_until_next_market_open called at every instant of four days (one of
\* them without a session) on every market-hours response of the first two.
ClockTimes == 0..(4 * DayLen - 1)
ClockResponses == UNION {HoursResponses(d * DayLen) : d \in 0..1}

ClockInit ==
    /\ pc = "call"
    /\ idx = 1
    /\ now \in ClockTimes
    /\ capital = StartCapital * Scale
    /\ total_capital_used = 0
    /\ positions = [t \in Tickers |-> FlatPosition]
    /\ prices_buffers = [t \in Tickers |-> << >>]
    /\ market_hours \in ClockResponses
    /\ session_type = "None"
    /\ clear_time = UnboundTime
    /\ encrypted_account_number = 1
    /\ acct = [t \in Tickers |-> [long |-> 0, short |-> 0]]
    /\ faults = 0
    /\ orders = << >>
    /\ entry_evals = {}
    /\ tick_hours = {market_hours}
    /\ committed = [t \in Tickers |-> 0]
    /\ expected = StartCapital * Scale
    /\ clean = TRUE
    /\ exception = "None"
    /\ quote = NoQuote
    /\ fetched_account = 1
    /\ signal = NoSignal
    /\ request = NoRequest
    /\ attempt = 0
    /\ response = NoResponse

EvalSessionType ==
    /\ pc = "call"
    /\ session_type' = get_session_type(market_hours, now)
    /\ pc' = "get_session_type"
    /\ UNCHANGED <<request, attempt, response>>
    /\ UNCHANGED <<idx, now, capital, total_capital_used, positions, prices_buffers,
                   market_hours, clear_time, encrypted_account_number, acct, faults,
                   orders, entry_evals, tick_hours, committed, expected, clean,
                   exception, quote, fetched_account, signal>>

EvalClearTime ==
    /\ pc = "call"
    /\ clear_time' = get_clear_time(market_hours)
    /\ pc' = "get_clear_time"
    /\ UNCHANGED <<request, attempt, response>>
    /\ UNCHANGED <<idx, now, capital, total_capital_used, positions, prices_buffers,
                   market_hours, session_type, encrypted_account_number, acct, faults,
                   orders, entry_evals, tick_hours, committed, expected, clean,
                   exception, quote, fetched_account, signal>>

EvalClearTimeDeploy ==
    /\ pc = "call"
    /\ clear_time' = get_clear_time_deploy(market_hours)
    /\ pc' = "get_clear_time_deploy"
    /\ UNCHANGED <<request, attempt, response>>
    /\ UNCHANGED <<idx, now, capital, total_capital_used, positions, prices_buffers,
                   market_hours, session_type, encrypted_account_number, acct, faults,
                   orders, entry_evals, tick_hours, committed, expected, clean,
                   exception, quote, fetched_account, signal>>

EvalSleepUntilOpen ==
    /\ pc = "call"
    /\ now' = sleep_until_next_market_open(now)
    /\ pc' = "sleep_until_next_market_open"
    /\ UNCHANGED <<request, attempt, response>>
    /\ UNCHANGED <<idx, capital, total_capital_used, positions, prices_buffers,
                   market_hours, session_type, clear_time, encrypted_account_number,
                   acct, faults, orders, entry_evals, tick_hours, committed, expected,
                   clean, exception, quote, fetched_account, signal>>

ClockNext ==
    \/ EvalSessionType
    \/ EvalClearTime
    \/ EvalClearTimeDeploy
    \/ EvalSleepUntilOpen

ClockSpec == ClockInit /\ [][ClockNext]_vars

\* ----------------------------- make_api_request of quantum_trader3.py
\* One call: the token fetch, then up to `retries` attempts. An attempt
\* returns the JSON body, raises a RequestException (connection error or
\* error status from raise_for_status), or raises another exception (a
\* body that is not JSON raises ValueError with older versions of requests
\* and a RequestException with newer ones). `now` counts the sleeps.
retries == 3
Methods == {"GET", "POST"}
Endpoints == {"quotes", "markets", "orders"}

\* `attempt < retries - 1`, and the same giving up after the second attempt
MayRetryOnce(a) == a < 1
MayRetry(a) == a < retries - 1

RetryInit ==
    /\ pc = "token"
    /\ idx = 1
    /\ now \in 0..MaxTime
    /\ capital = StartCapital * Scale
    /\ total_capital_used = 0
    /\ positions = [t \in Tickers |-> FlatPosition]
    /\ prices_buffers = [t \in Tickers |-> << >>]
    /\ market_hours = [kind |-> "None", day |-> 0]
    /\ session_type = "None"
    /\ clear_time = NoneTime
    /\ encrypted_account_number = 0
    /\ acct = [t \in Tickers |-> [long |-> 0, short |-> 0]]
    /\ faults = 0
    /\ orders = << >>
    /\ entry_evals = {}
    /\ tick_hours = {}
    /\ committed = [t \in Tickers |-> 0]
    /\ expected = StartCapital * Scale
    /\ clean = TRUE
    /\ exception = "None"
    /\ quote = NoQuote
    /\ fetched_account = 0
    /\ signal = NoSignal
    /\ request \in [method : Methods, endpoint : Endpoints, started : {now}]
    /\ attempt = 0
    /\ response = NoResponse

\* Line 60, then `for attempt in range(retries)`
GetToken ==
    /\ pc = "token"
    /\ attempt' = 0
    /\ pc' = "request"
    /\ UNCHANGED <<idx, now, capital, total_capital_used, positions, prices_buffers,
                   market_hours, session_type, clear_time, encrypted_account_number,
                   acct, faults, orders, entry_evals, tick_hours, committed, expected,
                   clean, exception, quote, fetched_account, signal, request, response>>

\* Line 60: the secret store request raises
GetTokenRaises ==
    /\ pc = "token"
    /\ exception' = "ClientError"
    /\ pc' = "crashed"
    /\ UNCHANGED <<idx, now, capital, total_capital_used, positions, prices_buffers,
                   market_hours, session_type, clear_time, encrypted_account_number,
                   acct, faults, orders, entry_evals, tick_hours, committed, expected,
                   clean, quote, fetched_account, signal, request, attempt, response>>

\* Lines 70-75: the attempt succeeds, `return response.json()`
RequestSucceeds ==
    /\ pc = "request"
    /\ response' = [kind |-> "json", of |-> attempt + 1]
    /\ pc' = "returned"
    /\ UNCHANGED <<idx, now, capital, total_capital_used, positions, prices_buffers,
                   market_hours, session_type, clear_time, encrypted_account_number,
                   acct, faults, orders, entry_evals, tick_hours, committed, expected,
                   clean, exception, quote, fetched_account, signal, request, attempt>>

\* Lines 76-84: RequestException; sleep and retry, or return None
RequestFails ==
    /\ pc = "request"
    /\ faults' = faults + 1
    /\ IF MayRetry(attempt)
       THEN pc' = "backoff" /\ response' = response
       ELSE pc' = "returned" /\ response' = [kind |-> "None", of |-> 0]
    /\ UNCHANGED <<idx, now, capital, total_capital_used, positions, prices_buffers,
                   market_hours, session_type, clear_time, encrypted_account_number,
                   acct, orders, entry_evals, tick_hours, committed, expected,
                   clean, exception, quote, fetched_account, signal, request, attempt>>

\* Lines 70-75: an exception that is not a RequestException leaves the function
RequestRaises ==
    /\ pc = "request"
    /\ exception' = "ValueError"
    /\ pc' = "crashed"
    /\ UNCHANGED <<idx, now, capital, total_capital_used, positions, prices_buffers,
                   market_hours, session_type, clear_time, encrypted_account_number,
                   acct, faults, orders, entry_evals, tick_hours, committed, expected,
                   clean, quote, fetched_account, signal, request, attempt, response>>

\* Line 81: time.sleep(5), then the next attempt
Backoff ==
    /\ pc = "backoff"
    /\ now' = now + 1
    /\ attempt' = attempt + 1
    /\ pc' = "request"
    /\ UNCHANGED <<idx, capital, total_capital_used, positions, prices_buffers,
                   market_hours, session_type, clear_time, encrypted_account_number,
                   acct, faults, orders, entry_evals, tick_hours, committed, expected,
                   clean, exception, quote, fetched_account, signal, request, response>>

RetryNext ==
    \/ GetToken
    \/ GetTokenRaises
    \/ RequestSucceeds
    \/ RequestFails
    \/ RequestRaises
    \/ Backoff

\* the function is sequential code: a step that can be taken is taken
RetrySpec == RetryInit /\ [][RetryNext]_vars /\ WF_vars(RetryNext)

\* ------------------------------------------------ the price step by itself
\* Lines 376-504 entered in the regular session with every symbol Flat, from
\* several levels of available capital (-2 is what the flatten of two
\* shorts leaves of 4000) and every short window; and the entry branch of
\* quantum_trader_deploy.py from the same states.
CapitalLevels == { c * Scale : c \in {-2, 0, 90, 150, 250, StartCapital} }
DeployCapitalLimit == 2000

SizingInit ==
    /\ pc = "price"
    /\ idx \in 1..Len(tickers)
    /\ now = RegOpen + 1
    /\ capital \in CapitalLevels
    /\ total_capital_used = 0
    /\ positions = [t \in Tickers |-> FlatPosition]
    /\ prices_buffers \in [Tickers -> Windows]
    /\ market_hours = [kind |-> "full", day |-> 0]
    /\ session_type = "regularMarket"
    /\ clear_time = RegClose - ClearBuffer
    /\ encrypted_account_number = 1
    /\ acct = [t \in Tickers |-> [long |-> 0, short |-> 0]]
    /\ faults = 0
    /\ orders = << >>
    /\ entry_evals = {}
    /\ tick_hours = {market_hours}
    /\ committed = [t \in Tickers |-> 0]
    /\ expected = capital
    /\ clean = TRUE
    /\ exception = "None"
    /\ quote = NoQuote
    /\ fetched_account = 1
    /\ signal = NoSignal
    /\ request = NoRequest
    /\ attempt = 0
    /\ response = NoResponse

\* quantum_trader_deploy.py lines 246-323: quote, buffer push, entry
\* decision, quantity from the whole capital, capital check, order
DeployEntry ==
    /\ pc = "price"
    /\ \E price \in Prices, res \in OrderResults :
        LET t == tickers[idx]
            p == positions[t]
            prices == Push(prices_buffers[t], price)
            decision == should_enter_trade(prices, threshold)
            quantity == DeployQuantity(capital, price)
            potential_cost == IF decision = "long" THEN LongCost(quantity, price)
                              ELSE IF decision = "short" THEN ShortValue(quantity, price)
                              ELSE 0
            within == total_capital_used + potential_cost <= DeployCapitalLimit * Scale
            submitted == within /\ decision # "None" /\ quantity > 0
            ok == submitted /\ OrderOk(res)
            order_type == IF decision = "long" THEN "BUY" ELSE "SELL_SHORT"
            delta == IF ok THEN 0 - EntryDebit(decision, quantity, price) ELSE 0
        IN
        /\ session_type = "regularMarket"
        /\ CanEnter(p)
        /\ (~submitted) => res = "filled"
        /\ faults' = faults + (IF submitted /\ res # "filled" THEN 1 ELSE 0)
        /\ WithinFaultBound(faults')
        /\ quote' = price
        /\ prices_buffers' = [prices_buffers EXCEPT ![t] = prices]
        /\ positions' = [positions EXCEPT ![t] =
                            IF ok THEN OpenPosition(p, decision, quantity, price) ELSE p]
        /\ capital' = capital + delta
        /\ total_capital_used' =
               IF ok THEN total_capital_used + EntryCommit(decision, quantity, price)
               ELSE total_capital_used
        /\ acct' = IF submitted
                   THEN [acct EXCEPT ![t] = BrokerAfter(acct[t], order_type, quantity, res)]
                   ELSE acct
        /\ orders' = IF submitted
                     THEN Append(orders, Order(t, order_type, quantity, res, "deploy_entry",
                                               p, Len(prices), potential_cost, delta, price))
                     ELSE orders
        /\ entry_evals' = entry_evals \cup
                              {[sym |-> t, position |-> p.position, winlen |-> Len(prices)]}
        /\ clean' = (clean /\ (submitted => res = "filled"))
        /\ signal' = Entered(threshold, decision)
    /\ Advance
    /\ UNCHANGED <<now, market_hours, session_type, clear_time, encrypted_account_number,
                   tick_hours, committed, expected, exception, fetched_account,
                   request, attempt, response>>

SizingNext ==
    \/ ProcessTicker
    \/ PriceUnavailable
    \/ QuantityZeroDivision
    \/ DeployEntry

SizingSpec == SizingInit /\ [][SizingNext]_vars

TypeOK ==
    /\ pc \in {"refresh", "hours", "clear", "price", "sleep", "crashed"}
    /\ idx \in 1..Len(tickers)
    /\ now \in 0..MaxTime
    /\ \A t \in Tickers : Len(prices_buffers[t]) <= neighborhood_size

\* ================================================================= claims
NewOrders == { orders'[i] : i \in (Len(orders) + 1)..Len(orders') }
OrderLog == { orders[i] : i \in 1..Len(orders) }
EntryTypes == {"BUY", "SELL_SHORT"}
AllFlat == \A t \in Tickers : positions[t].position = "None"

\* C1: every symbol is in exactly one of Flat, Long, Short (shares and
\* borrowed_shares are never both positive, and the position field agrees
\* with them), and neither an entry order is submitted nor the entry signal
\* evaluated for a symbol whose position is not Flat.
C1_PositionExclusive ==
    /\ \A t \in Tickers :
          /\ ~(positions[t].shares > 0 /\ positions[t].borrowed_shares > 0)
          /\ positions[t].position = "long" => positions[t].shares > 0
          /\ positions[t].position = "short" => positions[t].borrowed_shares > 0
          /\ positions[t].position = "None" =>
                 positions[t].shares = 0 /\ positions[t].borrowed_shares = 0
    /\ \A o \in OrderLog : o.order_type \in EntryTypes => o.position = "None"
    /\ \A e \in entry_evals : e.position = "None"

C1_Witness ==
    \E o \in OrderLog :
        /\ o.order_type = "BUY" /\ o.ok
        /\ positions[o.sym].position = "long"
        /\ \E t \in Tickers : positions[t].position = "short"

\* C2: a step in which the gateway rejects an entry order or a stop-loss
\* exit order leaves every position, the available capital and
\* total_capital_used unchanged.
C2_RejectedOrderChangesNothing ==
    [][(pc = "price" /\ \E o \in NewOrders : ~o.ok)
         => (positions' = positions /\ capital' = capital
             /\ total_capital_used' = total_capital_used)]_vars

C2_Witness ==
    /\ pc \in {"hours", "sleep"}
    /\ \E o \in OrderLog : o.kind = "exit" /\ ~o.ok /\ positions[o.sym].position = o.position
    /\ \E o \in OrderLog : o.kind = "entry" /\ ~o.ok

\* C3: inside flatten-all too, capital changes only for confirmed closes: a
\* clear_all_positions call in which no closing order is confirmed leaves
\* the available capital as it was.
C3_UnconfirmedCloseKeepsCapital ==
    [][(pc = "clear" /\ \A o \in NewOrders : ~o.ok) => capital' = capital]_vars

\* C4: after flatten-all returns every symbol is Flat and every price window
\* is empty, whatever the quote fetches and closing orders did.
C4_FlattenLeavesAllFlat ==
    [][pc = "clear" => \A t \in Tickers : /\ positions'[t].position = "None"
                                          /\ prices_buffers'[t] = << >>]_vars

\* C4 (amended): after flatten-all returns every price window is empty; a
\* symbol is Flat exactly if it was Flat before or its closing order was
\* confirmed, and a symbol whose quote or closing order failed keeps its
\* position entry unchanged.
C4_FlattenClearsConfirmed ==
    [][pc = "clear" =>
         \A t \in Tickers :
            /\ prices_buffers'[t] = << >>
            /\ IF positions[t].position = "None"
               THEN positions'[t] = positions[t]
               ELSE IF \E o \in NewOrders : o.sym = t /\ o.ok
               THEN positions'[t] = FlatPosition
               ELSE positions'[t] = positions[t]]_vars

C4_Witness ==
    /\ pc = "price"
    /\ \A t \in Tickers : prices_buffers[t] = << >>
    /\ \E o \in OrderLog : o.kind = "clear" /\ o.ok /\ positions[o.sym] = FlatPosition
    /\ \E o \in OrderLog : o.kind = "clear" /\ ~o.ok /\ positions[o.sym].position # "None"

RECURSIVE SumCommitted(_)
SumCommitted(i) ==
    IF i > Len(tickers) THEN 0
    ELSE (IF positions[tickers[i]].position # "None" THEN committed[tickers[i]] ELSE 0)
         + SumCommitted(i + 1)

\* C5: total_capital_used is the sum, over the symbols holding a position,
\* of the amount added to it when that position was opened (0 when all
\* symbols are Flat).
C5_CapitalUsedIsCommitted == total_capital_used = SumCommitted(1)

\* C6: after any sequence of confirmed and filled opens and closes that
\* leaves every symbol Flat, available capital is the start capital plus the
\* realized price profits minus the transaction costs charged.
C6_CapitalConserved == (clean /\ AllFlat) => capital = expected

\* C7: a confirmed close by flatten-all changes available capital by what a
\* stop-loss exit of the same position at the same price would.
C7_ClearSameAsExit ==
    \A o \in OrderLog :
        (o.kind = "clear" /\ o.ok)
           => o.delta = ExitEffect(o.position, o.quantity, o.entry_price, o.price)

\* C8: no entry or exit order is submitted for a symbol whose price window
\* holds fewer than neighborhood_size samples.
C8_NoDecisionBeforeReady ==
    \A o \in OrderLog : o.kind \in {"entry", "exit"} => o.winlen >= neighborhood_size

\* C9: no entry order is submitted when total_capital_used plus the
\* projected cost of the position exceeds the capital limit, and
\* total_capital_used never exceeds the capital limit.
C9_CapitalCheck ==
    /\ \A o \in OrderLog : o.kind = "entry" => o.tcu + o.projected <= o.cap
    /\ total_capital_used <= capital

\* C10: a tick liquidates only if a market-hours response fetched in that
\* same tick has a clear time and now has reached it.
C10_LiquidatesOnFreshClearTime ==
    [][(pc = "hours" /\ pc' = "clear")
         => \E mh \in tick_hours' : /\ get_clear_time(mh) # NoneTime
                                    /\ now >= get_clear_time(mh)]_vars

\* C11: a step that flattens ends the tick: after clear_all_positions and
\* the sleep until the next open the loop continues at the credential
\* refresh, not at the price fetch of the symbol being processed.
C11_FlattenEndsTick == [][pc = "clear" => pc' = "refresh"]_vars

\* C12: no failure of an external call ends the loop with an exception.
C12_NoFailureEndsLoop == exception = "None"

\* the calendar's regular session, bounds included as in get_session_type
RegularAt(t) == DayStart(t) + RegOpen <= t /\ t <= DayStart(t) + RegClose

\* C13: an entry or exit order is submitted only in an iteration whose
\* session type is regularMarket, at a time inside the regular session; an
\* iteration whose market-hours fetch failed or gave no session has session
\* None and submits no order.
C13_OrdersOnlyInRegularSession ==
    [][/\ (pc = "hours" /\ market_hours'.kind # "full") => session_type' = "None"
       /\ (pc = "price" /\ NewOrders # {}) =>
             /\ market_hours.kind = "full"
             /\ session_type = "regularMarket"
             /\ RegularAt(now)
             /\ \A o \in NewOrders : /\ o.kind \in {"entry", "exit"}
                                      /\ o.session = "regularMarket"]_vars

C13_Witness ==
    /\ pc = "sleep"
    /\ market_hours.kind = "None"
    /\ \E o \in OrderLog : o.sym = tickers[1] /\ o.session = "regularMarket"
    /\ \A o \in OrderLog : o.sym # tickers[2]
    /\ positions[tickers[2]].position # "None"
    /\ quote \in Prices

PositionMoves ==
    { <<"None", "BUY", "long">>, <<"None", "SELL_SHORT", "short">>,
      <<"long", "SELL", "None">>, <<"short", "BUY_TO_COVER", "None">> }

\* C14: a symbol's position changes only in a step that submitted a
\* confirmed order for it, and only Flat->Long by BUY, Flat->Short by
\* SELL_SHORT, Long->Flat by SELL, Short->Flat by BUY_TO_COVER.
C14_TransitionsByConfirmedOrder ==
    [][\A t \in Tickers :
         positions'[t].position # positions[t].position =>
            \E o \in NewOrders :
                /\ o.sym = t
                /\ o.ok
                /\ <<positions[t].position, o.order_type, positions'[t].position>>
                      \in PositionMoves]_vars

\* The outcomes a second clear_all_positions call is tried with: a quote or
\* none, a confirmed or a rejected order; a Flat symbol has neither.
SecondOutcomes == [quote : {100, NoQuote}, res : {"filled", "rejected"}]
ClearOutsFor(pos) ==
    IF \A t \in Tickers : pos[t].position = "None"
    THEN { [t \in Tickers |-> [quote |-> NoQuote, res |-> "filled"]] }
    ELSE { out \in [Tickers -> SecondOutcomes] :
             \A t \in Tickers : pos[t].position = "None"
                                   => out[t] = [quote |-> NoQuote, res |-> "filled"] }

\* clear_all_positions called in the current state
SecondClear(out) ==
    ClearFrom(1, [capital |-> capital, positions |-> positions, acct |-> acct,
                  faults |-> 0, orders |-> << >>, committed |-> committed,
                  expected |-> expected, clean |-> clean, skipped |-> {}], out)

\* C15: a second flatten-all right after the first is a no-op: it submits
\* no order and leaves positions, capital and windows as the first call
\* left them, with total_capital_used = 0 and every symbol Flat.
C15_SecondFlattenIsNoOp ==
    [][pc = "clear" =>
         /\ total_capital_used' = 0
         /\ AllFlat'
         /\ ClearedBuffers(prices_buffers') = prices_buffers'
         /\ \A out \in ClearOutsFor(positions') :
               \A st \in {SecondClear(out)'} :
                  /\ st.orders = << >>
                  /\ st.positions = positions'
                  /\ st.capital = capital']_vars

\* C15 (amended): after a flatten-all, total_capital_used is 0 and the
\* windows are empty; a second flatten-all submits a closing order exactly
\* for the symbols the first call left open and for which it gets a quote;
\* when the first call left every symbol Flat the second submits no order
\* and changes neither positions nor capital nor windows.
C15_SecondFlattenRetriesOpen ==
    [][pc = "clear" =>
         /\ total_capital_used' = 0
         /\ ClearedBuffers(prices_buffers') = prices_buffers'
         /\ \A out \in ClearOutsFor(positions') :
               \A st \in {SecondClear(out)'} :
                  /\ {st.orders[i].sym : i \in 1..Len(st.orders)}
                       = {t \in Tickers : /\ positions'[t].position # "None"
                                          /\ out[t].quote # NoQuote}
                  /\ AllFlat' => /\ st.orders = << >>
                                 /\ st.positions = positions'
                                 /\ st.capital = capital']_vars

C15_Witness ==
    /\ pc = "price"
    /\ AllFlat
    /\ total_capital_used = 0
    /\ \A t \in Tickers : prices_buffers[t] = << >>
    /\ Len(orders) = Len(tickers)
    /\ \A i \in 1..Len(orders) : orders[i].kind = "clear" /\ orders[i].ok

\* C16: every window has at most neighborhood_size samples and holds the
\* last samples pushed since it was cleared, oldest first: a push of x
\* makes the window the last neighborhood_size elements of the old window
\* followed by x, and nothing but a push and the clearing changes a window.
C16_WindowIsLastPushed ==
    [][\A t \in Tickers :
         /\ Len(prices_buffers'[t]) <= neighborhood_size
         /\ IF pc = "price" /\ t = tickers[idx] /\ quote' # NoQuote
            THEN prices_buffers'[t]
                   = LastN(Append(prices_buffers[t], quote'), neighborhood_size)
            ELSE \/ prices_buffers'[t] = prices_buffers[t]
                 \/ pc = "clear" /\ prices_buffers'[t] = << >>]_vars

\* A short entered at 100 needs a higher sample in its window: in a full
\* window of 100s that sample has been evicted.
C16_Witness ==
    \E t \in Tickers :
        /\ positions[t].position = "short"
        /\ positions[t].entry_price = 100
        /\ Len(prices_buffers[t]) = neighborhood_size
        /\ \A i \in 1..Len(prices_buffers[t]) : prices_buffers[t][i] = 100

\* C17: the processing of a symbol whose quote is unavailable changes no
\* window, no position, neither capital nor total_capital_used, and
\* submits no order.
C17_NoQuoteChangesNothing ==
    [][(pc = "price" /\ quote' = NoQuote)
         => UNCHANGED <<prices_buffers, positions, capital, total_capital_used,
                        orders, acct>>]_vars

C17_Witness ==
    /\ pc = "sleep"
    /\ quote = NoQuote
    /\ Len(prices_buffers[tickers[idx]]) >= 2
    /\ positions[tickers[idx]].position # "None"
    /\ session_type = "regularMarket"

\* C18: a price that is not positive is never appended to a window and
\* never reaches the quantity computation.
C18_NonPositivePriceRejected ==
    /\ \A t \in Tickers :
          \A i \in 1..Len(prices_buffers[t]) : prices_buffers[t][i] > 0
    /\ exception # "ZeroDivisionError"

\* C19: the controller's account id is the id of the last successful
\* fetch: a success installs the fetched id, a failure of any kind keeps the
\* previous id, and the refresh raises only while no fetch has succeeded.
C19_AccountIdFallback ==
    /\ encrypted_account_number = fetched_account
    /\ pc = "crashed" => (fetched_account = 0 /\ exception = "ValueError")
    /\ fetched_account # 0 => exception = "None"

C19_Witness ==
    /\ pc = "sleep"
    /\ faults >= 2
    /\ encrypted_account_number = MaxAccountId

\* C20: the loop goes on: in every state up to the time horizon the next
\* step of trade_logic can be taken.
C20_LoopContinues == (pc = "sleep" /\ now = MaxTime) \/ ENABLED Next

\* C26: whenever a symbol's position is Flat, its shares, borrowed_shares
\* and entry_price are all zero, whichever path made the position Flat (a
\* stop-loss close, the flatten, or the account sync of lines 344-350).
C26_FlatFieldsZero ==
    \A t \in Tickers :
        positions[t].position = "None" =>
            /\ positions[t].shares = 0
            /\ positions[t].borrowed_shares = 0
            /\ positions[t].entry_price = 0

\* C25: a confirmed Long entry of q shares at price p reduces the available
\* capital by q*p*(1+transaction_cost) and raises total_capital_used by q*p.
C25_LongEntryLedger ==
    [][\A o \in NewOrders :
          (o.kind = "entry" /\ o.order_type = "BUY" /\ o.ok) =>
              /\ capital' = capital - o.quantity * o.price * (Scale + transaction_cost)
              /\ total_capital_used' = total_capital_used + o.quantity * o.price * Scale]_vars

\* C30: within a tick the liquidation check of a symbol (the comparison of
\* the time with clear_time, line 370) runs before the price fetch of line
\* 376 and before any entry or exit evaluation for that symbol: the price
\* step of a symbol is entered only from that symbol's check (directly when
\* the comparison is false, through the flatten when it is true), and only
\* the price step evaluates a signal or submits an entry or exit order.
C30_LiquidationCheckFirst ==
    [][/\ (pc' = "price") => (pc \in {"hours", "clear"} /\ idx' = idx)
       /\ (pc' = "clear") => (pc = "hours" /\ idx' = idx)
       /\ (pc = "hours" /\ pc' = "price") => ~ShouldLiquidate(clear_time', now)
       /\ (pc = "hours" /\ pc' = "clear") => ShouldLiquidate(clear_time', now)
       /\ (signal' # NoSignal \/ \E o \in NewOrders : o.kind \in {"entry", "exit"})
              => pc = "price"]_vars

\* the second symbol of a tick was checked and then traded
C30_Witness ==
    /\ pc = "sleep"
    /\ idx = Len(tickers)
    /\ tick_hours # {}
    /\ signal.result \in {"long", "short", "True"}
    /\ \E o \in OrderLog : o.sym = tickers[idx] /\ o.kind \in {"entry", "exit"}

CalledWindow == prices_buffers'[tickers[idx]]
SetMin(S) == CHOOSE x \in S : \A y \in S : x <= y
SetMax(S) == CHOOSE x \in S : \A y \in S : x >= y
Samples(w, n) == { w[i] : i \in Max2(1, Len(w) - n + 1)..Len(w) }

\* C22: with local_min and local_max taken over the last neighborhood_size
\* samples of the window, rise = (current - local_min) / local_min (0 when
\* local_min <= 0) and drop = (local_max - current) / local_max (0 when
\* local_max <= 0), should_enter_trade returns long iff rise > threshold,
\* short iff rise <= threshold and drop > threshold, and None otherwise; so
\* long wins when both exceed the threshold.
C22_EntryRule ==
    [][signal'.fn = "should_enter_trade" =>
          LET w == CalledWindow
              thr == signal'.param
              current == w[Len(w)]
              local_min == SetMin(Samples(w, neighborhood_size))
              local_max == SetMax(Samples(w, neighborhood_size))
              rise == local_min > 0 /\ (current - local_min) * Pct > thr * local_min
              drop == local_max > 0 /\ (local_max - current) * Pct > thr * local_max
          IN /\ (signal'.result = "long") <=> rise
             /\ (signal'.result = "short") <=> (~rise /\ drop)
             /\ (signal'.result = "None") <=> (~rise /\ ~drop)]_vars

\* a window whose last sample is both 4% above the minimum and more than 5%
\* below the maximum: long
C22_Witness ==
    /\ signal = Entered(threshold, "long")
    /\ prices_buffers[tickers[1]] = <<100, 110, 104>>

\* the ledger entry a decision function was called for
CalledEntry == positions[tickers[idx]]

\* C23: for a Long position should_exit_trade returns true iff
\* current <= max(window) * (1 - stop_loss_percent) in the trailing-only
\* variant, and iff current <= max(entry_price, max(window)) *
\* (1 - stop_loss_percent) in the entry-floor variant.
C23_LongExitRule ==
    [][CalledEntry.position = "long" =>
          LET w == CalledWindow
              slp == signal'.param
              current == w[Len(w)]
              peak == SetMax(Samples(w, Len(w)))
              exit == signal'.result = "True"
          IN /\ signal'.fn = "should_exit_trade_trailing" =>
                    (exit <=> current * Pct <= peak * (Pct - slp))
             /\ signal'.fn = "should_exit_trade" =>
                    (exit <=> current * Pct
                                <= Max2(CalledEntry.entry_price, peak) * (Pct - slp))]_vars

\* Scenario B: entry 100, peak 110, stop 5%, current 104: the trailing stop
\* 104.5 triggers the exit
C23_Witness ==
    /\ signal = Exited("should_exit_trade_trailing", 5, TRUE)
    /\ positions[tickers[1]].position = "long"
    /\ positions[tickers[1]].entry_price = 100
    /\ prices_buffers[tickers[1]] = <<100, 110, 104>>

\* C24: for a Short position should_exit_trade returns true iff
\* current >= min(window) * (1 + stop_loss_percent) in the trailing-only
\* variant, and iff current >= min(entry_price, min(window)) *
\* (1 + stop_loss_percent) in the entry-floor variant; for a Flat position
\* it returns false.
C24_ShortExitRule ==
    [][signal'.fn \in {"should_exit_trade", "should_exit_trade_trailing"} =>
          LET w == CalledWindow
              slp == signal'.param
              current == w[Len(w)]
              trough == SetMin(Samples(w, Len(w)))
              exit == signal'.result = "True"
          IN /\ (CalledEntry.position = "short"
                   /\ signal'.fn = "should_exit_trade_trailing") =>
                    (exit <=> current * Pct >= trough * (Pct + slp))
             /\ (CalledEntry.position = "short" /\ signal'.fn = "should_exit_trade") =>
                    (exit <=> current * Pct
                                >= Min2(CalledEntry.entry_price, trough) * (Pct + slp))
             /\ CalledEntry.position = "None" => ~exit]_vars

\* a Short entered at 110 whose window fell to 100 and came back to 104: the
\* trailing stop of 6% (106) is not reached, that of 1% (101) is
C24_Witness ==
    /\ signal = Exited("should_exit_trade_trailing", stop_loss_percent, TRUE)
    /\ positions[tickers[1]].position = "short"
    /\ positions[tickers[1]].entry_price = 110
    /\ prices_buffers[tickers[1]] = <<110, 100, 104>>

\* the sessions of the schedule sleep_until_next_market_open fetches at t:
\* the trading days from the day of t to five days later
ScheduledDays(t) ==
    { d \in { DayStart(t) + i * DayLen : i \in 0..(ScheduleDays - 1) } : IsTradingDay(d) }
InSession(t) == \E d \in ScheduledDays(t) : d + RegOpen <= t /\ t < d + RegClose
LaterOpens(t) == { d + RegOpen : d \in { e \in ScheduledDays(t) : e + RegOpen > t } }

\* C27: sleep_until_next_market_open returns at once iff the time is inside
\* [market_open, market_close) of a scheduled session; otherwise it returns
\* at the earliest market_open after the time among the trading days of the
\* schedule; it never returns before the time it was called at.
C27_SleepUntilOpen ==
    [][(pc' = "sleep_until_next_market_open" \/ (pc = "clear" /\ pc' # "crashed")) =>
          /\ now' >= now
          /\ (now' = now) <=> InSession(now)
          /\ ~InSession(now) => now' = SetMin(LaterOpens(now))]_vars

\* the call returned at the open of day 3, which only a call made after the
\* close of day 1 or during the closed day 2 reaches
C27_Witness ==
    /\ pc = "sleep_until_next_market_open"
    /\ now = 3 * DayLen + RegOpen
    /\ ~IsTradingDay(2 * DayLen)

\* the first regular-market period of a response
RegularPeriods(mh) == SelectSeq(SessionHours(mh), LAMBDA sp : sp.type = "regularMarket")

\* C28: get_clear_time returns the end of the regular market minus the
\* 5-minute buffer when the response has regular-market hours, and None
\* when it has none or cannot be parsed.
C28_ClearTime ==
    [][(\/ pc' \in {"get_clear_time", "get_clear_time_deploy"}
        \/ (pc = "hours" /\ pc' # "crashed" /\ market_hours'.kind # "None")) =>
          clear_time' = IF RegularPeriods(market_hours') # << >>
                        THEN RegularPeriods(market_hours')[1].end - ClearBuffer
                        ELSE NoneTime]_vars

\* C29: get_session_type returns a session type only if one of that type's
\* periods contains the time, bounds included, and returns None iff no
\* period of the response contains the time (a response that cannot be
\* parsed has no period).
C29_SessionType ==
    [][(\/ pc' = "get_session_type"
        \/ (pc = "hours" /\ pc' # "crashed" /\ market_hours'.kind # "None")) =>
          LET periods == SessionHours(market_hours')
              Containing == { i \in 1..Len(periods) :
                                 periods[i].start <= now /\ now <= periods[i].end }
          IN /\ session_type' # "None" =>
                    \E i \in Containing : periods[i].type = session_type'
             /\ (session_type' = "None") <=> (Containing = {})]_vars

\* the call was made at the very end of the last period of the response
C29_Witness ==
    /\ pc = "get_session_type"
    /\ market_hours.kind = "full"
    /\ now = market_hours.day + PostClose
    /\ session_type = "postMarket"

\* C38: make_api_request makes at most `retries` (3) attempts, returns the
\* result of the first attempt that succeeds, sleeps once before every
\* attempt after the first and at no other time, returns None only after 3
\* failed attempts in a row, and always comes to an end.
C38_RetryPolicy ==
    /\ [](/\ attempt \in 0..(retries - 1)
          /\ pc \in {"request", "backoff", "returned"} =>
                now - request.started = attempt
          /\ pc \in {"request", "backoff"} => response = NoResponse
          /\ (pc = "returned" /\ response.kind = "json") =>
                (response.of = attempt + 1 /\ faults = attempt)
          /\ (pc = "returned" /\ response.kind = "None") => faults = retries
          /\ pc = "returned" => response.kind \in {"json", "None"})
    /\ <>(pc \in {"returned", "crashed"})

\* two failures, two sleeps, and the third attempt's result returned
C38_Witness ==
    /\ pc = "returned"
    /\ response = [kind |-> "json", of |-> retries]
    /\ faults = retries - 1
    /\ now = request.started + 2

\* C37: after the account sync of a tick the local position of every
\* symbol is Long iff the broker holds a long quantity of it, Short iff it
\* holds only a short quantity, and Flat iff it holds nothing, also for a
\* symbol the broker's response does not list.
C37_SyncAgreesWithBroker ==
    [][(pc = "refresh" /\ pc' = "hours") =>
          \A t \in Tickers :
             /\ (positions'[t].position = "long") <=> (acct[t].long > 0)
             /\ (positions'[t].position = "short") <=>
                    (acct[t].long = 0 /\ acct[t].short > 0)
             /\ (positions'[t].position = "None") <=>
                    (acct[t].long = 0 /\ acct[t].short = 0)]_vars

\* C34: total_capital_used is never negative.
C34_CapitalUsedNonNegative == total_capital_used >= 0

\* C35: the available capital is never negative.
C35_CapitalNonNegative == capital >= 0

\* the capital an entry may allocate: half the available capital in
\* quantum_trader_split_deploy.py, all of it in quantum_trader_deploy.py
Allocatable(o) == IF o.kind = "entry" THEN o.cap \div 2 ELSE o.cap
EntryKinds == {"entry", "deploy_entry"}

\* C36: every submitted entry order has the quantity
\* q = floor(allocatable capital / price) with q >= 1, so q * price never
\* exceeds the allocatable capital; an entry decision whose quantity is 0
\* (or negative) submits no order.
C36_EntryQuantity ==
    [][/\ \A o \in NewOrders :
             o.kind \in EntryKinds =>
                /\ o.quantity >= 1
                /\ o.quantity * o.price * Scale <= Allocatable(o)
                /\ (o.quantity + 1) * o.price * Scale > Allocatable(o)
       /\ (/\ pc = "price"
           /\ signal'.fn = "should_enter_trade"
           /\ signal'.result \in {"long", "short"}
           /\ quote' # ZeroPrice
           /\ capital < quote' * Scale)
             => NewOrders = {}]_vars

\* an entry of a single share, and an entry decision without an order
C36_Witness ==
    /\ signal.fn = "should_enter_trade"
    /\ signal.result \in {"long", "short"}
    /\ \/ \E o \in OrderLog : o.kind \in EntryKinds /\ o.quantity = 1
       \/ (orders = << >> /\ capital \in {0, 90 * Scale})


\* everything the controller keeps, apart from the position in the code and
\* the value the call returned
ControllerState ==
    <<idx, now, capital, total_capital_used, positions, prices_buffers, market_hours,
      session_type, clear_time, encrypted_account_number, orders, exception>>

DayClearTime(t) == (t \div DayLen) * DayLen + RegClose - ClearBuffer
AtOrAfterClearTime(t) == IsTradingDay(t) /\ t >= DayClearTime(t)

\* C32: no entry order (BUY or SELL_SHORT) is submitted in a tick whose time
\* is at or after that day's clear time: the entry evaluation that follows
\* the liquidation in that tick sees a window of one sample and returns None.
C32_NoEntryAfterClearTime ==
    [][AtOrAfterClearTime(now) =>
          /\ \A o \in NewOrders : o.kind # "entry"
          /\ (pc = "price" /\ signal'.fn = "should_enter_trade") =>
                /\ Len(prices_buffers'[tickers[idx]]) = 1
                /\ signal'.result = "None"]_vars

\* an entry evaluation at or after the clear time, with a price that would
\* have given a decision on the window held before the liquidation
C32_Witness ==
    /\ AtOrAfterClearTime(now)
    /\ signal.fn = "should_enter_trade"
    /\ \E t \in Tickers : Len(prices_buffers[t]) = 1
    /\ \E cleared \in OrderLog : cleared.kind = "clear"


\* C33: within one tick at most one order is submitted per symbol, the
\* closing orders of the liquidation counted with entry and exit orders.
C33_OneOrderPerSymbolPerTick ==
    \A i, j \in DOMAIN orders : orders[i].sym = orders[j].sym => i = j

====
